---- MODULE Spec2Model ----
(***************************************************************************)
(* ytFetcher: the acquisition retry engine (src/src/downloader.py), the    *)
(* driver loop with its dedup ledger (src/src/main.py,                     *)
(* src/src/logging_util.py) and the background post-processing queue and   *)
(* worker (src/src/transcoder.py).                                         *)
(*                                                                         *)
(* SpecDL  : one call of download_video on one item.                       *)
(* Spec    : driver thread and worker thread around the shared queue.      *)
(* FairSpec: Spec with the scheduling fairness of the two threads.         *)
(* SpecScan: main() up to the end of the reconciliation scan, worker       *)
(*           running beside it.                                            *)
(* SpecPB  : one ProgressBar fed the stderr lines of one subprocess.       *)
(* SpecLedger: downloaded_videos.log as a file of characters.              *)
(* SpecWorker, FairWorker: a TranscodeWorker under any client.             *)
(* SpecSort: one call of sort_videos.                                      *)
(***************************************************************************)
EXTENDS Integers, Sequences, FiniteSets, TLC

VARIABLES
  \* ---- output directory, shared by every component
  dir,            \* directory entries, ordered by modification time (oldest first)
  partial,        \* the entries of dir whose content is incomplete
  \* ---- download_video (downloader.py)
  video,          \* the item handed to download_video
  retries,        \* its retries argument
  epc,            \* position inside download_video
  strategy_index, \* index into the strategy list being tried (1-based)
  attempt,        \* the attempt counter of the inner while loop
  result,         \* the value returned
  events,         \* tool invocations and sleeps, in order
  lastrun,        \* exit code and directory state of the latest invocation
  \* ---- main() (main.py), the driver thread
  pc,             \* position of the driver in main()
  videos,         \* the items to go through, after fetch and filter
  index,          \* enumerate(videos, start=1)
  downloaded_ids, \* the set load_downloaded_ids returned
  scan,           \* entries of the os.listdir snapshot backfill has yet to visit
  counters,       \* counters["queued"] of backfill_existing_media
  lastscan,       \* what backfill saw of the entry it visited last
  ledger,         \* lines of downloaded_videos.log
  error_log,      \* lines of errors.log
  dlpath,         \* path = download_video(...) of the iteration under way
  successes,      \* main()'s count of items recorded as downloaded
  failures,       \* main()'s count of items whose download failed
  \* ---- queue.Queue and TranscodeWorker (transcoder.py), the worker thread
  jobs,           \* every TranscodeJob put on the queue in this run, in put order
  status,         \* per job: "queued", "running", "OK", "FAIL" or "ERROR"
  queue,          \* the queue's items (indexes into jobs), head first
  unfinished,     \* queue.Queue.unfinished_tasks
  wpc,            \* position of the worker in run()
  cur,            \* the job the worker holds (0: none)
  stop,           \* TranscodeWorker._stop
  tlog,           \* lines of transcode.log
  lastexit,       \* the latest subprocess exit run() got to judge
  stuck,          \* the partials backfill's os.remove raised on
  stopat,         \* where run() was when stop() was called ("": not called)
  polls,          \* get() timeouts that expired since stop() was called
  \* ---- ProgressBar (transcoder.py)
  bpc,            \* "none" before __init__, "live", "raised" once a line raised
  bar,            \* total_frames, current_frame, fps, speed, eta
  fed,            \* the lines handed to update_from_ffmpeg_line, in order
  \* ---- downloaded_videos.log as a file (logging_util.py)
  lpc,            \* "off", or "open" once main() has created the file
  content,        \* the characters of the file
  written,        \* the identifiers append_line was called with, in order
  loaded,         \* the set load_downloaded_ids returned last
  \* ---- sort_videos (processor.py)
  spc,            \* "off", "called", "returned" or "raised"
  sv_videos,      \* the videos argument
  sv_after_date,  \* the after_date argument
  sv_keyword,     \* the keyword_filter argument
  sv_result       \* the list returned

\* ------------------------------------------------------------------ bounds
MaxRetries == 1
MaxVideos == 2
MaxLines == 2
\* get() timeouts counted after stop()
MaxPolls == 2

MaxAppends == 3
\* jobs a client of the worker puts
MaxJobs == 2

\* --------------------------------------------------------------- constants
None == "None"
Ids == {"a", "b"}
RealId == "a"       \* the identifier the remote source gives the item

RetryDelay == 2
SwitchDelay == 3

FormatStrategies ==
  << "bv*+ba/b", "best[height>=720]/best", "best[height>=480]/best",
     "best[height>=360]/best", "best" >>

AndroidStrategies == << "best" >>

\* ------------------------------------------------------ directory entries
\* An entry "<title> [<vid>].<ext>"; ext "dir" stands for a sub-directory
\* carrying such a name, every other entry is a regular file.
Entry(v, e) == [vid |-> v, ext |-> e]

\* The absent path (Python's None where a path is expected).
NoPath == Entry("", "")

IsFile(f) == f.ext # "dir"

Without(d, f) == SelectSeq(d, LAMBDA x: x # f)

\* Writing (or rewriting) an entry makes it the most recently modified one.
Touch(d, f) == Append(Without(d, f), f)

Exists(d, f) == \E i \in 1..Len(d) : d[i] = f

Range(d) == { d[i] : i \in 1..Len(d) }

\* --------------------------------------------------------- Output Locator
Candidates(d, video_id) ==
  SelectSeq(d, LAMBDA f: f.vid = video_id /\ IsFile(f))

\* candidates.sort(key=getmtime, reverse=True); candidates[0]
FindNewest_Oldest(c) == c[1]

FindNewest(c) == c[Len(c)]

_find_downloaded_file(d, video_id) ==
  IF video_id = None \/ video_id = "" THEN NoPath
  ELSE LET c == Candidates(d, video_id)
       IN IF c = << >> THEN NoPath ELSE FindNewest(c)

\* ----------------------------------------------------------- the item
\* url: whether webpage_url/url is set; id: the identifier, None or "".
Videos == [url : BOOLEAN, id : {None, "", RealId}]

\* not video.get("id")
NoIdent(v) == v.id = None \/ v.id = ""

HasUrl(v) == v.url \/ ~NoIdent(v)

\* ------------------------------------------------- the acquisition tool
\* One run of the tool: its exit code and the entry it leaves behind.
ToolOutcomes == [code : {0, 1}, wrote : {"none", "mp4", "webm", "part", "jpg"}]

\* The tool names its output after the identifier the remote source
\* reports, whether or not the item record carries it.
ToolVid(v) == IF ~NoIdent(v) THEN v.id ELSE RealId

ToolWrites(d, v, o) ==
  IF o.wrote = "none" THEN d ELSE Touch(d, Entry(ToolVid(v), o.wrote))

\* The downloader name main() passes: argparse admits "yt-dlp" only.
Downloader == "yt-dlp"

\* _build_command_with_format raises DownloadError for an item without
\* locator or for an unsupported downloader.
BuildRaises(v, downloader) == ~HasUrl(v) \/ downloader # "yt-dlp"

\* use_android of the command built for a phase of download_video.
UseAndroid(phase) == phase = "android"

\* A tool invocation: the selector, the client identity, and whether
\* download_video took it as a success.
RunEvent(fmt, android, ok) ==
  [ev |-> "run", fmt |-> fmt, android |-> android, ok |-> ok, secs |-> 0]

SleepEvent(secs) ==
  [ev |-> "sleep", fmt |-> "", android |-> FALSE, ok |-> FALSE, secs |-> secs]

\* if attempt <= retries: time.sleep(2)
RetryPause_None == << >>

RetryPause == << SleepEvent(RetryDelay) >>

\* if strategy_index < len(format_strategies) - 1: time.sleep(3)
SwitchPause == << SleepEvent(SwitchDelay) >>

\* What the latest tool invocation did: its exit code, whether a file
\* matching the item's identifier was in the directory when it exited, and
\* what _find_downloaded_file made of the directory then.
NoRun == [code |-> -1, located |-> FALSE, found |-> NoPath]

\* result.returncode == 0 and _find_downloaded_file(...) is truthy
AttemptSucceeds_CodeOnly(o, path) == o.code = 0

AttemptSucceeds(o, path) == o.code = 0 /\ path # NoPath

\* while attempt <= retries
LoopAgain_OffByOne(a, r) == a < r

LoopAgain(a, r) == a <= r

\* for strategy_index, format_strategy in enumerate(format_strategies)
StrategyAfter_Skip(i) == i + 2

StrategyAfter(i) == i + 1

InitialDirs ==
  { << >>,
    << Entry(RealId, "part") >>,
    << Entry(RealId, "dir") >>,
    << Entry("b", "mp4") >> }

\* ------------------------------------------------------- download_video
DL_Init ==
  /\ video \in Videos
  /\ retries \in 0..MaxRetries
  /\ dir \in InitialDirs
  /\ epc = "call"
  /\ strategy_index = 0
  /\ attempt = 0
  /\ result = NoPath
  /\ events = << >>
  /\ lastrun = NoRun

\* url = ...; if not url: return None; then the first strategy's command
\* is built and its while loop entered.
DL_Begin ==
  /\ epc = "call"
  /\ IF ~HasUrl(video)
       THEN /\ epc' = "returned"
            /\ UNCHANGED << strategy_index, attempt >>
       ELSE IF BuildRaises(video, Downloader)
         THEN /\ epc' = "raised"
              /\ UNCHANGED << strategy_index, attempt >>
         ELSE /\ epc' = IF LoopAgain(0, retries) THEN "primary" ELSE "android"
              /\ strategy_index' = 1
              /\ attempt' = 0
  /\ UNCHANGED << dir, video, retries, result, events, lastrun >>

\* return path
OnSuccess_KeepGoing(path, run) ==
  /\ result' = path
  /\ events' = Append(events, run)
  /\ UNCHANGED << epc, strategy_index, attempt >>

OnSuccess(path, run) ==
  /\ result' = path
  /\ epc' = "returned"
  /\ events' = Append(events, run)
  /\ UNCHANGED << strategy_index, attempt >>

\* One pass of the inner while loop over a strategy list: run the tool,
\* look for the file, return it or count the attempt, sleep, and move on.
Attempt(phase, strategies, o) ==
  LET d2      == ToolWrites(dir, video, o)
      found   == _find_downloaded_file(d2, video.id)
      path    == IF o.code = 0 THEN found ELSE NoPath
      ok      == AttemptSucceeds(o, path)
      run     == RunEvent(strategies[strategy_index], UseAndroid(phase), ok)
      last    == ~(strategy_index < Len(strategies))
  IN /\ dir' = d2
     /\ lastrun' = [code |-> o.code, located |-> found # NoPath,
                     found |-> found]
     /\ IF ok
          THEN OnSuccess(path, run)
          ELSE IF LoopAgain(attempt + 1, retries)
            THEN \* attempt += 1; time.sleep(2)
                 /\ attempt' = attempt + 1
                 /\ events' = events \o << run >> \o RetryPause
                 /\ UNCHANGED << strategy_index, epc, result >>
            ELSE IF ~last
              THEN \* next strategy of the same list
                   /\ strategy_index' = StrategyAfter(strategy_index)
                   /\ attempt' = 0
                   /\ events' = IF phase = "primary"
                                  THEN events \o << run >> \o SwitchPause
                                  ELSE Append(events, run)
                   /\ UNCHANGED << epc, result >>
              ELSE IF phase = "primary"
                THEN \* all regular strategies failed: Android client
                     /\ epc' = "android"
                     /\ strategy_index' = 1
                     /\ attempt' = 0
                     /\ events' = Append(events, run)
                     /\ UNCHANGED result
                ELSE \* return None
                     /\ epc' = "returned"
                     /\ events' = Append(events, run)
                     /\ UNCHANGED << strategy_index, attempt, result >>

DL_Primary(o) ==
  /\ epc = "primary"
  /\ strategy_index <= Len(FormatStrategies)
  /\ LoopAgain(attempt, retries)
  /\ Attempt("primary", FormatStrategies, o)
  /\ UNCHANGED << video, retries >>

DL_Android(o) ==
  /\ epc = "android"
  /\ strategy_index <= Len(AndroidStrategies)
  /\ LoopAgain(attempt, retries)
  /\ Attempt("android", AndroidStrategies, o)
  /\ UNCHANGED << video, retries >>

enginevars ==
  << video, retries, epc, strategy_index, attempt, result, events, lastrun >>

\* download_video is not running.
EngineIdle ==
  /\ video = [url |-> FALSE, id |-> None]
  /\ retries = 0
  /\ epc = "off"
  /\ strategy_index = 0
  /\ attempt = 0
  /\ result = NoPath
  /\ events = << >>
  /\ lastrun = NoRun

\* ------------------------------------------------------------ the ledger
\* append_line(download_log, video_id): one line per identifier.
append_line(log, text) == Append(log, text)

\* load_downloaded_ids: the set of non-blank stripped lines.
load_downloaded_ids(log) == { log[i] : i \in 1..Len(log) } \ { "" }

\* video_id = v.get("id") or "<no-id>"
NoId == "<no-id>"

VideoId(v) == IF ~NoIdent(v) THEN v.id ELSE NoId

\* f"Failed: {video_id or title}"; video_id is never empty here
FailedLine(v) == VideoId(v)

\* if path:
Acquired_Always(p) == TRUE

Acquired(p) == p # NoPath

\* No download_video call has returned in the iteration under way.
NoCall == Entry("", "no call")

\* if video_id in downloaded_ids: continue
AlreadyDownloaded(video_id, ids) == video_id \in ids

\* --------------------------------------------------------- TranscodeJob
\* The one output directory of a run (args.output_path).
OutputDir == "output_path"

\* The optional fields of a job: each a value or None.
Meta(title, uploader, upload_date, webpage_url) ==
  [title |-> title, uploader |-> uploader, upload_date |-> upload_date,
   webpage_url |-> webpage_url]

TranscodeJob(source_path, mode, meta) ==
  [source_path |-> source_path, output_dir |-> OutputDir, mode |-> mode,
   title |-> meta.title, uploader |-> meta.uploader,
   upload_date |-> meta.upload_date, webpage_url |-> meta.webpage_url]

\* The fields the driver takes from the item: title (or "<no-title>"),
\* uploader, upload_date, webpage_url.
ItemMeta(v) == Meta("T", "U", "D", IF v.url THEN "W" ELSE None)

\* path.lower().endswith(".mp4"), on the part of the name after the
\* bracketed identifier
EndsWithMp4(e) ==
  e \in {"mp4", "tmp.mp4", "tmp.tmp.mp4", "tmp.tmp.tmp.mp4", "other.mp4",
         "other.tmp.mp4"}

\* os.path.splitext(...)[0], on the same part of the name: what is left
\* of it before the last extension.
Stem(e) ==
  CASE e \in {"webm", "mp4", "jpg"} -> ""
    [] e = "tmp.mp4"                -> "tmp."
    [] e = "tmp.tmp.mp4"            -> "tmp.tmp."
    [] OTHER                        -> "other."

\* mode of the job the driver builds for a downloaded path
ModeFor_AlwaysTranscode(path) == "transcode"

ModeFor_AlwaysRemux(path) == "remux"

ModeFor(path) == IF EndsWithMp4(path.ext) THEN "remux" ELSE "transcode"

\* The job replaces its source in place: a remux of an .mp4.
InPlace(job) == job.mode = "remux" /\ EndsWithMp4(job.source_path.ext)

\* dst: base + ".tmp.mp4" for a remux of an .mp4, else base + ".mp4"
DstExt(job) ==
  Stem(job.source_path.ext) \o (IF InPlace(job) THEN "tmp.mp4" ELSE "mp4")

Dst(job) == Entry(job.source_path.vid, DstExt(job))

\* thumb_jpg = os.path.splitext(source_path)[0] + ".jpg"
Thumb(path) == Entry(path.vid, Stem(path.ext) \o "jpg")

\* ----------------------------------------------------------- queue.Queue
\* put: the item joins the tail and unfinished_tasks grows by one.
QueuePut(job) ==
  /\ jobs' = Append(jobs, job)
  /\ status' = Append(status, "queued")
  /\ queue' = Append(queue, Len(jobs) + 1)
  /\ unfinished' = unfinished + 1

\* get: the item that has waited longest is handed out and leaves the queue.
QueueFront_Newest(q) == q[Len(q)]

QueueFront(q) == Head(q)

QueueAfterGet_KeepHead(q) == q

QueueAfterGet(q) == Tail(q)

\* task_done
TaskDone(n) == n - 1

\* join returns when unfinished_tasks is zero
JoinMayReturn_Always(n) == TRUE

JoinMayReturn(n) == n = 0

\* ---------------------------------------------------------- ProgressBar
\* Text is a sequence of characters. A stderr line is seen through the four
\* tokens the regular expressions look for: for each of frame=, fps=,
\* speed= and time= the text that follows the token, Absent when the line
\* has no such token.
Absent == << >>

DigitSeq == << "0", "1", "2", "3", "4", "5", "6", "7", "8", "9" >>

Digits == { DigitSeq[i] : i \in 1..10 }

DigitVal(c) == (CHOOSE i \in 1..10 : DigitSeq[i] = c) - 1

\* Length of the longest prefix of s made of characters of cls (a greedy
\* \s*, \d+ or [\d.]+).
SpanLen(s, cls) ==
  LET stops == { i \in 1..Len(s) : s[i] \notin cls }
  IN IF stops = {} THEN Len(s)
     ELSE (CHOOSE i \in stops : \A k \in stops : i <= k) - 1

Rest(s, n) == SubSeq(s, n + 1, Len(s))

\* int() of a string of digits.
RECURSIVE IntOf(_)
IntOf(ds) ==
  IF ds = << >> THEN 0
  ELSE 10 * IntOf(SubSeq(ds, 1, Len(ds) - 1)) + DigitVal(ds[Len(ds)])

\* The group of  \s*(\d+)  matched at the start of t, << >> for no match.
DigitsGroup(t) ==
  LET u == Rest(t, SpanLen(t, {" "}))
  IN SubSeq(u, 1, SpanLen(u, Digits))

\* The group of  \s*([\d.]+)x  matched at the start of t, << >> for no
\* match.
SpeedGroup(t) ==
  LET u == Rest(t, SpanLen(t, {" "}))
      n == SpanLen(u, Digits \cup {"."})
  IN IF n > 0 /\ Len(u) > n /\ u[n + 1] = "x" THEN SubSeq(u, 1, n)
     ELSE << >>

\* float(g) raises ValueError: g has more than one point or no digit.
FloatRaises(g) ==
  \/ Cardinality({ i \in 1..Len(g) : g[i] = "." }) > 1
  \/ \A i \in 1..Len(g) : g[i] = "."

\* float(g), in thousandths (the texts fed have at most three decimals).
FloatOf(g) ==
  LET n    == SpanLen(g, Digits)
      frac == Rest(g, n + 1)
      pad  == SubSeq(frac \o << "0", "0", "0" >>, 1, 3)
  IN 1000 * IntOf(SubSeq(g, 1, n)) + IntOf(pad)

\* (\d{2}):(\d{2}):(\d{2}) matches at the start of t.
TimeMatches(t) ==
  /\ Len(t) >= 8
  /\ \A i \in {1, 2, 4, 5, 7, 8} : t[i] \in Digits
  /\ t[3] = ":" /\ t[6] = ":"

\* A quotient, kept as numerator and denominator.
Ratio(n, d) == [num |-> n, den |-> d]

\* ProgressBar.__init__; speed is held in thousandths.
NewBar(total_frames) ==
  [total_frames |-> total_frames, current_frame |-> 0, fps |-> 0,
   speed |-> 0, eta |-> Ratio(0, 1)]

\* The total frame counts _get_video_info may return.
TotalFrames == {0, 200}

\* The texts ffmpeg's -stats line may carry after each token, and one line
\* of another kind whose speed= text is no number.
FrameTexts == { Absent, << "1", "0", "0" >>, << " ", "2", "5", "0" >> }

FpsTexts ==
  { Absent, << "3", "0" >>, << "5", ".", "3" >>, << "0", ".", "8" >> }

SpeedTexts == { Absent, << "1", ".", "5", "x" >>, << "N", "/", "A" >> }

TimeTexts ==
  { Absent, << "0", "0", ":", "0", "0", ":", "1", "0", ".", "0", "0" >> }

StatusLine(frame, fps, speed, time) ==
  [frame |-> frame, fps |-> fps, speed |-> speed, time |-> time]

Lines ==
  { StatusLine(fr, fp, sp, tm) :
      fr \in FrameTexts, fp \in FpsTexts, sp \in SpeedTexts,
      tm \in TimeTexts }
  \cup { StatusLine(Absent, Absent, << "1", ".", "2", ".", "3", "x" >>, Absent) }

\* update_from_ffmpeg_line up to the speed assignment: the frame and fps
\* the line leaves in the bar.
FrameAfter(b, line) ==
  IF DigitsGroup(line.frame) # << >> THEN IntOf(DigitsGroup(line.frame))
  ELSE b.current_frame

FpsAfter(b, line) ==
  IF DigitsGroup(line.fps) # << >> THEN IntOf(DigitsGroup(line.fps))
  ELSE b.fps

SpeedAfter(b, line) ==
  IF SpeedGroup(line.speed) # << >> THEN FloatOf(SpeedGroup(line.speed))
  ELSE b.speed

LineRaises(line) ==
  SpeedGroup(line.speed) # << >> /\ FloatRaises(SpeedGroup(line.speed))

EtaAfter(b, line) ==
  IF /\ TimeMatches(line.time)
     /\ FpsAfter(b, line) > 0
     /\ b.total_frames > 0
    THEN Ratio(b.total_frames - FrameAfter(b, line), FpsAfter(b, line))
    ELSE b.eta

\* The bar update_from_ffmpeg_line leaves; when float() raises, the frame
\* and fps assignments are already made and nothing after them is.
update_from_ffmpeg_line(b, line) ==
  IF LineRaises(line)
    THEN [b EXCEPT !.current_frame = FrameAfter(b, line),
                   !.fps = FpsAfter(b, line)]
    ELSE [b EXCEPT !.current_frame = FrameAfter(b, line),
                   !.fps = FpsAfter(b, line),
                   !.speed = SpeedAfter(b, line),
                   !.eta = EtaAfter(b, line)]

\* render: eta_str is the ETA as a time when eta > 0, else "??:??:??".
EtaStr(b) == IF b.eta.num > 0 THEN "h:mm:ss" ELSE "??:??:??"

\* render: the plain readout (no ETA in it) when total_frames is 0, else
\* the bar with its ETA.
render(b) ==
  IF b.total_frames = 0 THEN [form |-> "readout", eta_str |-> None]
  ELSE [form |-> "bar", eta_str |-> EtaStr(b)]

barvars == << bpc, bar, fed >>

\* No ProgressBar exists.
BarIdle ==
  /\ bpc = "off"
  /\ bar = NewBar(0)
  /\ fed = << >>

\* run(): ProgressBar(title, total_frames) once the subprocess is started.
PB_New(total_frames) ==
  /\ bpc = "none"
  /\ bpc' = "live"
  /\ bar' = NewBar(total_frames)
  /\ fed' = << >>

\* run(): one non-empty line of the subprocess's stderr is fed to the bar;
\* an exception leaves the loop.
PB_Feed(line) ==
  /\ bpc = "live"
  /\ Len(fed) < MaxLines
  /\ bar' = update_from_ffmpeg_line(bar, line)
  /\ fed' = Append(fed, line)
  /\ bpc' = IF LineRaises(line) THEN "raised" ELSE "live"

\* ---------------------------------------------- the ledger as a file
\* The file is a sequence of characters; an identifier is the text
\* v.get("id") yields: a non-empty token without white space.
NL == "\n"

FileChars == { "a", "b", " ", NL }

LedgerIds == { << "a" >>, << "b" >>, << "a", "b" >> }

\* append_line: f.write(text + "\n") on a file opened with "a"
FileAppend_NoNewline(c, text) == c \o text

FileAppend(c, text) == c \o text \o << NL >>

\* for line in f: the text up to each line break, and what follows the
\* last one if anything does.
RECURSIVE FileLines(_)
FileLines(c) ==
  IF c = << >> THEN << >>
  ELSE LET n == SpanLen(c, FileChars \ { NL })
       IN << SubSeq(c, 1, n) >> \o FileLines(Rest(c, n + 1))

\* line.strip()
Reverse(t) == [i \in 1..Len(t) |-> t[Len(t) + 1 - i]]

Strip(t) ==
  LET u == Rest(t, SpanLen(t, { " ", NL }))
  IN SubSeq(u, 1, Len(u) - SpanLen(Reverse(u), { " ", NL }))

\* load_downloaded_ids on the file's characters
FileLoad(c) ==
  { Strip(FileLines(c)[i]) : i \in 1..Len(FileLines(c)) } \ { << >> }

\* What the file may hold when main() opens it: nothing, or the lines
\* earlier runs appended.
StartContents == { << >>, << "b", NL >>, << "a", "b", NL, "b", NL >> }

filevars == << lpc, content, written, loaded >>

\* The file is not looked at.
FileIdle ==
  /\ lpc = "off"
  /\ content = << >>
  /\ written = << >>
  /\ loaded = {}

\* main(): open(download_log, "a").close()
L_Open ==
  /\ lpc = "closed"
  /\ lpc' = "open"
  /\ UNCHANGED << content, written, loaded >>

\* main(): downloaded_ids = load_downloaded_ids(download_log)
L_Load ==
  /\ lpc = "open"
  /\ loaded' = FileLoad(content)
  /\ UNCHANGED << lpc, content, written >>

\* main(): append_line(download_log, video_id)
L_Append(id) ==
  /\ lpc = "open"
  /\ Len(written) < MaxAppends
  /\ content' = FileAppend(content, id)
  /\ written' = Append(written, id)
  /\ UNCHANGED << lpc, loaded >>

\* ---------------------------------------------------------- sort_videos
\* A video is seen through the two keys sort_videos reads. NoKey: the dict
\* has no such key; NoValue: the key holds None (what the fetcher stores when
\* the extractor gave no value).
NoKey == << "no key" >>

NoValue == << "None" >>

\* _parse_date returns None
NoDate == -1

Video(title, upload_date) == [title |-> title, upload_date |-> upload_date]

\* dict.get(key, default)
Get(value, default) == IF value = NoKey THEN default ELSE value

\* datetime.strptime(t, "%Y%m%d"): four digits of year, then a month and a
\* day of one or two digits each, the regular expression trying the
\* two-digit reading first and giving it up only if no day follows; text
\* left over, or a day the month does not have, raises. The value is the
\* date as year * 10000 + month * 100 + day; NoDate stands for the raise.
FieldTexts(r, most) ==
  { n \in {1, 2} :
      /\ Len(r) >= n
      /\ \A i \in 1..n : r[i] \in Digits
      /\ IntOf(SubSeq(r, 1, n)) \in 1..most
      /\ n = 1 => r[1] # "0" }

strptime(t) ==
  IF Len(t) < 4 \/ \E i \in 1..4 : t[i] \notin Digits THEN NoDate
  ELSE LET Longest(ns) == CHOOSE n \in ns : \A k \in ns : k <= n
           y  == IntOf(SubSeq(t, 1, 4))
           r  == Rest(t, 4)
           ms == { n \in FieldTexts(r, 12) : FieldTexts(Rest(r, n), 31) # {} }
       IN IF ms = {} THEN NoDate
          ELSE LET mn   == Longest(ms)
                   m    == IntOf(SubSeq(r, 1, mn))
                   r2   == Rest(r, mn)
                   dn   == Longest(FieldTexts(r2, 31))
                   d    == IntOf(SubSeq(r2, 1, dn))
                   leap == y % 4 = 0 /\ (y % 100 # 0 \/ y % 400 = 0)
                   days == IF m = 2 THEN (IF leap THEN 29 ELSE 28)
                           ELSE IF m \in {4, 6, 9, 11} THEN 30 ELSE 31
               IN IF Len(r2) # dn \/ y = 0 \/ d > days THEN NoDate
                  ELSE y * 10000 + m * 100 + d

\* _parse_date
_parse_date(date_str) ==
  IF date_str = NoValue \/ date_str = << >> THEN NoDate ELSE strptime(date_str)

\* str.lower(), character by character (the texts are ASCII).
Lower(t) ==
  [ i \in 1..Len(t) |->
      CASE t[i] = "A" -> "a" [] t[i] = "B" -> "b" [] OTHER -> t[i] ]

\* k in t
Contains(t, k) ==
  \E i \in 0..(Len(t) - Len(k)) : SubSeq(t, i + 1, i + Len(k)) = k

\* if threshold is not None and ud is not None and ud <= threshold: continue
DateDrops(v, threshold) ==
  LET ud == _parse_date(Get(v.upload_date, NoValue))
  IN threshold # NoDate /\ ud # NoDate /\ ud <= threshold

\* if keyword_filter: the keyword is neither None nor empty
KeywordGiven(k) == k # NoValue /\ k # << >>

\* v.get("title", "").lower() raises AttributeError on None
TitleRaises(v) == Get(v.title, << >>) = NoValue

\* keyword_filter.lower() not in title
KeywordDrops(v, k) == ~Contains(Lower(Get(v.title, << >>)), Lower(k))

\* What a piece of code comes to: a raise, or a list.
Raised == [raised |-> TRUE, list |-> << >>]

Returned(list) == [raised |-> FALSE, list |-> list]

\* The loop of sort_videos over vs.
RECURSIVE Filtered(_, _, _)
Filtered(vs, threshold, k) ==
  IF vs = << >> THEN Returned(<< >>)
  ELSE LET v    == Head(vs)
           rest == Filtered(Tail(vs), threshold, k)
       IN IF DateDrops(v, threshold) THEN rest
          ELSE IF KeywordGiven(k) /\ TitleRaises(v) THEN Raised
          ELSE IF rest.raised THEN Raised
          ELSE IF KeywordGiven(k) /\ KeywordDrops(v, k) THEN rest
          ELSE Returned(<< v >> \o rest.list)

\* key=lambda v: _parse_date(v.get("upload_date")) or datetime.min
SortKey(v) ==
  LET ud == _parse_date(Get(v.upload_date, NoValue))
  IN IF ud = NoDate THEN 0 ELSE ud

\* sorted(filtered, key=..., reverse=True): newest first, equal keys in
\* their order of arrival.
RECURSIVE Sorted(_)
Sorted(vs) ==
  IF vs = << >> THEN << >>
  ELSE LET v     == Head(vs)
           rest  == Sorted(Tail(vs))
           ahead == SelectSeq(rest, LAMBDA w : SortKey(w) > SortKey(v))
           after == SelectSeq(rest, LAMBDA w : SortKey(w) <= SortKey(v))
       IN ahead \o << v >> \o after

sort_videos(vs, after, k) ==
  LET f == Filtered(vs, _parse_date(after), k)
  IN IF f.raised THEN Raised ELSE Returned(Sorted(f.list))

\* The arguments sort_videos is checked with.
TitleValues == { NoKey, NoValue, << "A", "b" >>, << "b", "a" >> }

DateValues ==
  { NoValue,
    << "2", "0", "2", "3", "0", "1", "0", "1" >>,
    << "2", "0", "2", "5", "0", "1", "0", "1" >>,
    << "2", "0", "2", "4", "0", "1", "1" >> }

AfterValues ==
  { NoValue,
    << "2", "0", "2", "4", "0", "1", "0", "1" >>,
    << "2", "0", "2", "4", "-", "0", "1" >> }

KeywordValues == { NoValue, << >>, << "a", "B" >> }

SortInputs ==
  UNION { [1..n -> { Video(t, d) : t \in TitleValues, d \in DateValues }] :
            n \in 0..MaxVideos }

sortvars == << spc, sv_videos, sv_after_date, sv_keyword, sv_result >>

\* sort_videos is not called.
SortIdle ==
  /\ spc = "off"
  /\ sv_videos = << >>
  /\ sv_after_date = NoValue
  /\ sv_keyword = NoValue
  /\ sv_result = << >>

\* sort_videos runs to its return or its raise.
SV_Call ==
  /\ spc = "called"
  /\ LET r == sort_videos(sv_videos, sv_after_date, sv_keyword)
     IN /\ spc' = IF r.raised THEN "raised" ELSE "returned"
        /\ sv_result' = r.list
  /\ UNCHANGED << sv_videos, sv_after_date, sv_keyword >>

\* ------------------------------------------------------------- main()
\* What the output directory may hold when a run starts: nothing, or what
\* earlier (possibly interrupted) runs left; the second component is the
\* set of entries left incomplete.
StartDirs ==
  { << << >>, {} >>,
    << << Entry("b", "webm"), Entry("b", "jpg") >>, {} >>,
    << << Entry("b", "mp4"), Entry("b", "jpg"), Entry("a", "part") >>,
       {Entry("a", "part")} >> }

\* The same, for the runs in which the reconciliation scan has most to do.
ScanDirs ==
  StartDirs \cup
  { << << Entry("b", "webm"), Entry("b", "jpg"), Entry("b", "mp4") >>,
       {Entry("b", "mp4")} >>,
    << << Entry("b", "mp4"), Entry("b", "jpg"), Entry("b", "tmp.mp4") >>,
       {Entry("b", "tmp.mp4")} >>,
    << << Entry("", "webm"), Entry("b", "dir"), Entry("a", "mp4") >>, {} >> }

\* What downloaded_videos.log may hold when a run starts: nothing, or the
\* identifiers earlier runs appended.
StartLedgers == { << >>, << "a" >> }

\* The items get_videos and sort_videos may hand to the loop.
Items == { [url |-> TRUE, id |-> "a"], [url |-> TRUE, id |-> None] }

VideoLists == UNION { [1..n -> Items] : n \in 0..MaxVideos }

\* Tool runs as the driver sees them at the end of download_video.
DriverToolOutcomes == [code : {0, 1}, wrote : {"none", "mp4", "webm"}]

\* What backfill sees of one entry: whether it is a regular file, whether
\* its thumbnail exists, what the metadata probe and the metadata lookup
\* yield.
ProbeOutcomes ==
  {"raises", "nonzero", "empty", "no_fields", "title_only", "both"}

LookupOutcomes == {"fails", "found"}

Seen(f, regular, thumb, probe, lookup) ==
  [f |-> f, regular |-> regular, thumb |-> thumb, probe |-> probe,
   lookup |-> lookup]

NotSeen == Seen(NoPath, FALSE, FALSE, "not_run", "not_called")

\* What run() knows when a subprocess has exited: the job, the exit code,
\* whether dst existed, the verdict, and whether the outcome line was
\* appended.
Exited(j, code, existed, success, appended) ==
  [job |-> j, code |-> code, existed |-> existed, success |-> success,
   appended |-> appended]

NoExit == Exited(0, -1, FALSE, FALSE, FALSE)

\* The state main() starts from, but for the output directory and the
\* ledger.
AtStart ==
  /\ EngineIdle
  /\ BarIdle
  /\ FileIdle
  /\ SortIdle
  /\ pc = "start"
  /\ videos = << >>
  /\ index = 1
  /\ downloaded_ids = {}
  /\ scan = {}
  /\ counters = 0
  /\ lastscan = NotSeen
  /\ lastexit = NoExit
  /\ error_log = << >>
  /\ dlpath = NoCall
  /\ successes = 0
  /\ failures = 0
  /\ jobs = << >>
  /\ status = << >>
  /\ queue = << >>
  /\ unfinished = 0
  /\ wpc = "unstarted"
  /\ cur = 0
  /\ stop = FALSE
  /\ stopat = ""
  /\ stuck = {}
  /\ polls = 0
  /\ tlog = << >>

Init ==
  /\ AtStart
  /\ \E start \in StartDirs : dir = start[1] /\ partial = start[2]
  /\ ledger \in StartLedgers

\* A run over a directory earlier runs left in disorder.
InitScan ==
  /\ AtStart
  /\ \E start \in ScanDirs : dir = start[1] /\ partial = start[2]
  /\ ledger = << >>

\* main(): directories and logs, the queue, worker.start().
D_Start ==
  /\ pc = "start"
  /\ pc' = "backfill_clean"
  /\ wpc' = "top"
  /\ UNCHANGED << stuck, stopat, polls, dlpath, successes, failures,
                  dir, videos, index, downloaded_ids, scan, ledger,
                  error_log, jobs, status, queue, unfinished, cur, stop, tlog,
                  partial, counters, lastscan, lastexit >>

\* backfill_existing_media, first loop: remove partials; then the listdir
\* of the second loop.
IsPartial(f) == f.ext \in {"part", "ytdl"}

\* try: os.remove(...) except Exception: pass, for every partial; kept is
\* the set of entries on which os.remove raised.
RemovePartials_None(d, kept) == d

RemovePartials(d, kept) ==
  SelectSeq(d, LAMBDA f: ~IsPartial(f) \/ f \in kept)

D_BackfillClean(kept) ==
  /\ pc = "backfill_clean"
  /\ \A f \in kept : IsPartial(f)
  /\ LET d2 == RemovePartials(dir, kept)
     IN /\ dir' = d2
        /\ partial' = { f \in partial : Exists(d2, f) }
        /\ scan' = { d2[i] : i \in 1..Len(d2) }
  /\ stuck' = kept
  /\ pc' = "backfill"
  /\ UNCHANGED << stopat, polls, dlpath, successes, failures,
                  videos, index, downloaded_ids, ledger, error_log,
                  jobs, status, queue, unfinished, wpc, cur, stop, tlog,
                  counters, lastscan, lastexit >>

\* _extract_id_from_filename: the bracketed token, "" when there is none.
_extract_id_from_filename(f) == f.vid

\* get_video_metadata_by_id: the four fields, or None when the lookup
\* fails; (meta or {}).get(...) then yields None for each field.
get_video_metadata_by_id_UrlKept(video_id, lookup) ==
  IF lookup = "found" THEN Meta("T", "U", "D", "W")
  ELSE Meta(None, None, None, IF video_id = "" THEN None ELSE "W")

get_video_metadata_by_id(video_id, lookup) ==
  IF lookup = "found" THEN Meta("T", "U", "D", "W")
  ELSE Meta(None, None, None, None)

\* needs_processing: False only when the probe exits 0 with output that
\* holds both "title" and "artist".
NeedsProcessing_TitleOnly(probe) == probe \notin {"both", "title_only"}

NeedsProcessing_OnlyWhenProbed(probe) == probe \in {"no_fields", "title_only"}

NeedsProcessing(probe) == probe # "both"

\* The job mode backfill chooses for an entry, "skip" when it queues none.
ScanMode_WebmNeedsThumb(ext, regular, thumb, probe) ==
  IF ~regular THEN "skip"
  ELSE IF ext = "webm" /\ thumb THEN "transcode"
  ELSE IF EndsWithMp4(ext) /\ thumb /\ NeedsProcessing(probe)
    THEN "remux"
  ELSE "skip"

ScanMode(ext, regular, thumb, probe) ==
  IF ~regular THEN "skip"
  ELSE IF ext = "webm" THEN "transcode"
  ELSE IF EndsWithMp4(ext) /\ thumb /\ NeedsProcessing(probe)
    THEN "remux"
  ELSE "skip"

\* backfill_existing_media, second loop: one entry of the listing. probe
\* is what the metadata probe of an .mp4 with thumbnail yields, lookup what
\* get_video_metadata_by_id yields for a file that is queued.
D_BackfillEntry(f, probe, lookup) ==
  /\ pc = "backfill"
  /\ f \in scan
  /\ scan' = scan \ {f}
  /\ LET regular == Exists(dir, f) /\ IsFile(f)
         thumb   == Exists(dir, Thumb(f))
         probed  == regular /\ EndsWithMp4(f.ext) /\ thumb
         mode    == ScanMode(f.ext, regular, thumb, probe)
         called  == mode # "skip" /\ _extract_id_from_filename(f) # ""
         meta    == get_video_metadata_by_id(_extract_id_from_filename(f),
                                             IF called THEN lookup ELSE "fails")
     IN /\ probed \/ probe = "raises"
        /\ called \/ lookup = "fails"
        /\ lastscan' = Seen(f, regular, thumb,
                            IF probed THEN probe ELSE "not_run",
                            IF called THEN lookup ELSE "not_called")
        /\ IF mode = "skip"
             THEN UNCHANGED << jobs, status, queue, unfinished, counters >>
             ELSE /\ QueuePut(TranscodeJob(f, mode, meta))
                  /\ counters' = counters + 1
  /\ UNCHANGED << stuck, stopat, polls, dlpath, successes, failures,
                  dir, pc, videos, index, downloaded_ids, ledger,
                  error_log, wpc, cur, stop, tlog, partial, lastexit >>

\* get_videos, sort_videos, load_downloaded_ids.
D_Fetch(vs) ==
  /\ pc = "backfill"
  /\ scan = {}
  /\ videos' = vs
  /\ index' = 1
  /\ downloaded_ids' = load_downloaded_ids(ledger)
  /\ pc' = "loop"
  /\ lastscan' = NotSeen    \* backfill's locals are gone
  /\ UNCHANGED << stuck, stopat, polls, dlpath, successes, failures,
                  dir, scan, ledger, error_log, jobs, status, queue,
                  unfinished, wpc, cur, stop, tlog,
                  partial, counters, lastexit >>

\* Loop body up to the call of download_video: skip an item already in
\* downloaded_ids, else call download_video.
D_Iterate ==
  /\ pc = "loop"
  /\ index <= Len(videos)
  /\ IF AlreadyDownloaded(VideoId(videos[index]), downloaded_ids)
       THEN /\ index' = index + 1
            /\ pc' = "loop"
       ELSE /\ pc' = "download"
            /\ UNCHANGED index
  /\ dlpath' = NoCall    \* the result of the iteration before is gone
  /\ UNCHANGED << stuck, stopat, polls, successes, failures,
                  dir, videos, downloaded_ids, scan, ledger, error_log,
                  jobs, status, queue, unfinished, wpc, cur, stop, tlog,
                  partial, counters, lastscan, lastexit >>

\* download_video returns; the loop body up to the put of the job, or,
\* for a failed download, to its end. o is the tool run that decided the
\* call.
D_Downloaded(o) ==
  /\ pc = "download"
  /\ LET v    == videos[index]
         d2   == IF HasUrl(v) THEN ToolWrites(dir, v, o) ELSE dir
         path == IF HasUrl(v) /\ o.code = 0
                   THEN _find_downloaded_file(d2, v.id) ELSE NoPath
     IN /\ dir' = d2
        /\ partial' = IF d2 = dir THEN partial
                       ELSE partial \ {Entry(ToolVid(v), o.wrote)}
        /\ dlpath' = path
        /\ IF Acquired(path)
             THEN /\ QueuePut(TranscodeJob(path, ModeFor(path), ItemMeta(v)))
                  /\ pc' = "record"
                  /\ UNCHANGED << index, error_log, failures >>
             ELSE /\ error_log' = append_line(error_log, FailedLine(v))
                  /\ failures' = failures + 1
                  /\ index' = index + 1
                  /\ pc' = "loop"
                  /\ UNCHANGED << jobs, status, queue, unfinished >>
  /\ UNCHANGED << videos, downloaded_ids, scan, wpc, cur, stop, tlog,
                  ledger, successes,
                  counters, lastscan, lastexit, stuck, stopat, polls >>

\* if video_id != "<no-id>": append_line(download_log, video_id);
\* successes += 1
Recorded(id) == id # NoId

D_Record ==
  /\ pc = "record"
  /\ LET id == VideoId(videos[index])
     IN IF Recorded(id)
          THEN /\ ledger' = append_line(ledger, id)
               /\ successes' = successes + 1
          ELSE UNCHANGED << ledger, successes >>
  /\ index' = index + 1
  /\ pc' = "loop"
  /\ UNCHANGED << stuck, stopat, polls, dlpath, failures,
                  dir, videos, downloaded_ids, scan,
                  error_log, jobs, status, queue, unfinished, wpc, cur, stop,
                  tlog, partial, counters, lastscan, lastexit >>

\* transcode_queue.join() is called.
D_Join ==
  /\ pc = "loop"
  /\ index > Len(videos)
  /\ pc' = "join"
  /\ dlpath' = NoCall
  /\ UNCHANGED << stuck, stopat, polls, successes, failures,
                  dir, videos, index, downloaded_ids, scan, ledger,
                  error_log, jobs, status, queue, unfinished, wpc, cur, stop,
                  tlog,
                  partial, counters, lastscan, lastexit >>

\* transcode_queue.join() returns.
D_JoinReturn ==
  /\ pc = "join"
  /\ JoinMayReturn(unfinished)
  /\ pc' = "joined"
  /\ UNCHANGED << stuck, stopat, polls, dlpath, successes, failures,
                  dir, videos, index, downloaded_ids, scan, ledger,
                  error_log, jobs, status, queue, unfinished, wpc, cur, stop,
                  tlog,
                  partial, counters, lastscan, lastexit >>

\* worker.stop(); main() runs to its end.
D_Stop_BeforeReturn ==
  /\ pc \in {"join", "joined"}
  /\ stop' = TRUE
  /\ stopat' = IF stop THEN stopat ELSE wpc
  /\ pc' = "done"
  /\ UNCHANGED << stuck, polls, dlpath, successes, failures,
                  dir, videos, index, downloaded_ids, scan, ledger,
                  error_log, jobs, status, queue, unfinished, wpc, cur, tlog,
                  partial, counters, lastscan, lastexit >>

D_Stop ==
  /\ pc = "joined"
  /\ stop' = TRUE
  /\ stopat' = IF stop THEN stopat ELSE wpc
  /\ pc' = "done"
  /\ UNCHANGED << stuck, polls, dlpath, successes, failures,
                  dir, videos, index, downloaded_ids, scan, ledger,
                  error_log, jobs, status, queue, unfinished, wpc, cur, tlog,
                  partial, counters, lastscan, lastexit >>

\* -------------------------------------------------- TranscodeWorker.run
\* while not self._stop.is_set()
LoopGoesOn_Always(s) == TRUE

LoopGoesOn(s) == ~s

W_Check ==
  /\ wpc = "top"
  /\ wpc' = IF LoopGoesOn(stop) THEN "get" ELSE "stopped"
  /\ lastexit' = NoExit    \* the locals of the iteration before are gone
  /\ UNCHANGED << stuck, stopat, polls, dlpath, successes, failures,
                  dir, pc, videos, index, downloaded_ids, scan, ledger,
                  error_log, jobs, status, queue, unfinished, cur, stop, tlog,
                  partial, counters, lastscan >>

\* the worker is in work_queue.get(timeout=0.5)
WorkerMayGet_WhileBusy == wpc \in {"get", "proc"}

WorkerMayGet == wpc = "get"

\* job = self.work_queue.get(timeout=0.5) yields an item
W_Get ==
  /\ WorkerMayGet
  /\ queue # << >>
  /\ cur' = QueueFront(queue)
  /\ queue' = QueueAfterGet(queue)
  /\ status' = [status EXCEPT ![QueueFront(queue)] = "running"]
  /\ wpc' = "job"
  /\ UNCHANGED << stuck, stopat, polls, dlpath, successes, failures,
                  dir, pc, videos, index, downloaded_ids, scan, ledger,
                  error_log, jobs, unfinished, stop, tlog,
                  partial, counters, lastscan, lastexit >>

\* except queue.Empty: continue
W_Empty ==
  /\ wpc = "get"
  /\ queue = << >>
  /\ wpc' = "top"
  /\ polls' = IF stop /\ polls < MaxPolls THEN polls + 1 ELSE polls
  /\ UNCHANGED << stuck, stopat, dlpath, successes, failures,
                  dir, pc, videos, index, downloaded_ids, scan, ledger,
                  error_log, jobs, status, queue, unfinished, cur, stop, tlog,
                  partial, counters, lastscan, lastexit >>

Line(kind, j) == [kind |-> kind, job |-> j]

\* except Exception as exc: self._append_log("ERROR: ..."); finally:
\* task_done(). logged tells whether that append went through; when it
\* raises, the exception leaves run() and the thread ends.
OnException(logged) ==
  /\ status' = [status EXCEPT ![cur] = "ERROR"]
  /\ tlog' = IF logged THEN Append(tlog, Line("ERROR", cur)) ELSE tlog
  /\ unfinished' = TaskDone(unfinished)
  /\ wpc' = IF logged THEN "top" ELSE "dead"
  /\ cur' = 0

\* The job's command is built, the source probed, the subprocess started.
\* started is FALSE when one of these raises.
W_Spawn(started, logged) ==
  /\ wpc = "job"
  /\ IF started
       THEN /\ wpc' = "proc"
            /\ UNCHANGED << status, tlog, unfinished, cur >>
       ELSE OnException(logged)
  /\ UNCHANGED << stuck, stopat, polls, dlpath, successes, failures,
                  dir, pc, videos, index, downloaded_ids, scan, ledger,
                  error_log, jobs, queue, stop,
                  partial, counters, lastscan, lastexit >>

\* One run of the post-processing subprocess as run() sees it: its exit
\* code and what it left at dst. With code 0 it wrote its whole output or
\* left dst alone; with another code it left dst alone or left a truncated
\* output there.
JobOutcomes ==
  { [code |-> 0, wrote |-> "none"], [code |-> 0, wrote |-> "whole"],
    [code |-> 1, wrote |-> "none"], [code |-> 1, wrote |-> "partial"] }

\* success = code == 0 and os.path.exists(dst)
JobSucceeds_CodeOnly(code, existed) == code = 0

JobSucceeds_Always(code, existed) == TRUE

JobSucceeds(code, existed) == code = 0 /\ existed

\* The files a finished job leaves: on success the produced file replaces
\* the source of an .mp4 remux, else the source is removed; the thumbnail
\* is removed.
AfterSuccess_KeepThumb(d, job) ==
  IF InPlace(job)
    THEN IF Exists(d, Dst(job))
           THEN Touch(Without(d, Dst(job)), job.source_path)
           ELSE d
    ELSE Without(d, job.source_path)

AfterSuccess(d, job) ==
  LET d1 == IF InPlace(job)
              THEN IF Exists(d, Dst(job))
                     THEN Touch(Without(d, Dst(job)), job.source_path)
                     ELSE d
              ELSE Without(d, job.source_path)
  IN Without(d1, Thumb(job.source_path))

\* The incomplete entries after the same steps: a replaced source has the
\* content of the file that replaced it.
PartialAfterSuccess(ps, d, job) ==
  LET p1 == IF InPlace(job)
              THEN IF Exists(d, Dst(job))
                     THEN IF Dst(job) \in ps
                            THEN (ps \ {Dst(job)}) \cup {job.source_path}
                            ELSE ps \ {Dst(job), job.source_path}
                     ELSE ps
              ELSE ps
  IN { f \in p1 : Exists(AfterSuccess(d, job), f) }

\* What becomes of a job once judged: re-queueing it is no part of run().
Requeue_OnFailure(j, success) == IF success THEN << >> ELSE << j >>

Requeue(j, success) == << >>

\* The subprocess exits as o says; the outcome is judged, applied and
\* logged, and the task marked done. raised: an exception came up before
\* the exit code was read. logged1, logged2: the appends to transcode.log
\* (outcome line, ERROR line) went through.
W_Exit(o, raised, logged1, logged2) ==
  /\ wpc = "proc"
  /\ LET job     == jobs[cur]
         d2      == IF o.wrote = "none" THEN dir ELSE Touch(dir, Dst(job))
         p2      == CASE o.wrote = "none"    -> partial
                      [] o.wrote = "whole"   -> partial \ {Dst(job)}
                      [] o.wrote = "partial" -> partial \cup {Dst(job)}
         existed == Exists(d2, Dst(job))
         success == JobSucceeds(o.code, existed)
     IN IF raised
          THEN /\ dir' = d2
               /\ partial' = p2
               /\ OnException(logged2)
               /\ UNCHANGED << queue, lastexit >>
          ELSE /\ dir' = IF success THEN AfterSuccess(d2, job) ELSE d2
               /\ partial' = IF success THEN PartialAfterSuccess(p2, d2, job)
                              ELSE p2
               /\ lastexit' = Exited(cur, o.code, existed, success, logged1)
               /\ IF logged1
                    THEN /\ status' = [status EXCEPT
                                         ![cur] = IF success THEN "OK" ELSE "FAIL"]
                         /\ tlog' = Append(tlog,
                                      Line(IF success THEN "OK" ELSE "FAIL", cur))
                         /\ unfinished' = TaskDone(unfinished)
                         /\ wpc' = "top"
                         /\ cur' = 0
                    ELSE OnException(logged2)
               /\ queue' = queue \o Requeue(cur, success)
  /\ UNCHANGED << stuck, stopat, polls, dlpath, successes, failures,
                  pc, videos, index, downloaded_ids, scan, ledger,
                  error_log, jobs, stop, counters, lastscan >>

\* ------------------------------- TranscodeWorker under any client
\* The sources a client may hand over, and the modes it may ask for.
ClientSources == { Entry("b", "webm"), Entry("b", "mp4") }

ClientModes == { "transcode", "remux" }

\* A client puts a job on the worker's queue.
WK_Put(f, mode) ==
  /\ pc = "client"
  /\ Len(jobs) < MaxJobs
  /\ QueuePut(TranscodeJob(f, mode, Meta("T", "U", "D", "W")))
  /\ UNCHANGED << stuck, stopat, polls, dlpath, successes, failures,
                  dir, pc, videos, index, downloaded_ids, scan, ledger,
                  error_log, wpc, cur, stop, tlog,
                  partial, counters, lastscan, lastexit >>

\* A client calls stop(): self._stop.set()
WK_Stop ==
  /\ pc = "client"
  /\ stop' = TRUE
  /\ stopat' = IF stop THEN stopat ELSE wpc
  /\ UNCHANGED << stuck, polls, dlpath, successes, failures,
                  dir, pc, videos, index, downloaded_ids, scan, ledger,
                  error_log, jobs, status, queue, unfinished, wpc, cur, tlog,
                  partial, counters, lastscan, lastexit >>

pipevars ==
  << partial, pc, videos, index, downloaded_ids, scan, counters, lastscan,
     ledger, error_log, dlpath, successes, failures, jobs, status, queue,
     unfinished, wpc, cur, stop, tlog, lastexit, stuck, stopat, polls >>

\* The driver and the worker do not exist.
PipeIdle ==
  /\ partial = {}
  /\ dlpath = NoCall
  /\ successes = 0
  /\ failures = 0
  /\ counters = 0
  /\ lastscan = NotSeen
  /\ lastexit = NoExit
  /\ pc = "off"
  /\ videos = << >>
  /\ index = 0
  /\ downloaded_ids = {}
  /\ scan = {}
  /\ ledger = << >>
  /\ error_log = << >>
  /\ jobs = << >>
  /\ status = << >>
  /\ queue = << >>
  /\ unfinished = 0
  /\ wpc = "off"
  /\ cur = 0
  /\ stop = FALSE
  /\ stopat = ""
  /\ stuck = {}
  /\ polls = 0
  /\ tlog = << >>

vars == << dir, enginevars, pipevars, barvars, filevars, sortvars >>

DL_Next ==
  \/ DL_Begin /\ UNCHANGED << pipevars, barvars, filevars, sortvars >>
  \/ \E o \in ToolOutcomes : DL_Primary(o) /\ UNCHANGED << pipevars, barvars, filevars, sortvars >>
  \/ \E o \in ToolOutcomes : DL_Android(o) /\ UNCHANGED << pipevars, barvars, filevars, sortvars >>

\* One call of download_video, outside any run of main().
InitDL ==
  /\ PipeIdle
  /\ BarIdle
  /\ FileIdle
  /\ SortIdle
  /\ DL_Init

SpecDL == InitDL /\ [][DL_Next]_vars

Driver ==
  \/ D_Start
  \/ \E kept \in SUBSET Range(dir) : D_BackfillClean(kept)
  \/ \E f \in scan, probe \in ProbeOutcomes, lookup \in LookupOutcomes : D_BackfillEntry(f, probe, lookup)
  \/ \E vs \in VideoLists : D_Fetch(vs)
  \/ D_Iterate
  \/ \E o \in DriverToolOutcomes : D_Downloaded(o)
  \/ D_Record
  \/ D_Join
  \/ D_JoinReturn
  \/ D_Stop

Worker ==
  \/ W_Check
  \/ W_Get
  \/ W_Empty
  \/ \E started, logged \in BOOLEAN : W_Spawn(started, logged)
  \/ \E o \in JobOutcomes, raised, logged1, logged2 \in BOOLEAN :
       W_Exit(o, raised, logged1, logged2)

Next ==
  \/ D_Start /\ UNCHANGED << enginevars, barvars, filevars, sortvars >>
  \/ \E kept \in SUBSET Range(dir) :
       D_BackfillClean(kept) /\ UNCHANGED << enginevars, barvars, filevars, sortvars >>
  \/ \E f \in scan, probe \in ProbeOutcomes, lookup \in LookupOutcomes :
       D_BackfillEntry(f, probe, lookup) /\ UNCHANGED << enginevars, barvars, filevars, sortvars >>
  \/ \E vs \in VideoLists : D_Fetch(vs) /\ UNCHANGED << enginevars, barvars, filevars, sortvars >>
  \/ D_Iterate /\ UNCHANGED << enginevars, barvars, filevars, sortvars >>
  \/ \E o \in DriverToolOutcomes : D_Downloaded(o) /\ UNCHANGED << enginevars, barvars, filevars, sortvars >>
  \/ D_Record /\ UNCHANGED << enginevars, barvars, filevars, sortvars >>
  \/ D_Join /\ UNCHANGED << enginevars, barvars, filevars, sortvars >>
  \/ D_JoinReturn /\ UNCHANGED << enginevars, barvars, filevars, sortvars >>
  \/ D_Stop /\ UNCHANGED << enginevars, barvars, filevars, sortvars >>
  \/ W_Check /\ UNCHANGED << enginevars, barvars, filevars, sortvars >>
  \/ W_Get /\ UNCHANGED << enginevars, barvars, filevars, sortvars >>
  \/ W_Empty /\ UNCHANGED << enginevars, barvars, filevars, sortvars >>
  \/ \E started, logged \in BOOLEAN :
       W_Spawn(started, logged) /\ UNCHANGED << enginevars, barvars, filevars, sortvars >>
  \/ \E o \in JobOutcomes, raised, logged1, logged2 \in BOOLEAN :
       W_Exit(o, raised, logged1, logged2) /\ UNCHANGED << enginevars, barvars, filevars, sortvars >>

Spec == Init /\ [][Next]_vars

\* main() up to the end of backfill_existing_media (the driver then waits
\* for get_videos), with the worker running beside it.
NextScan ==
  \/ D_Start /\ UNCHANGED << enginevars, barvars, filevars, sortvars >>
  \/ \E kept \in SUBSET Range(dir) :
       D_BackfillClean(kept) /\ UNCHANGED << enginevars, barvars, filevars, sortvars >>
  \/ \E f \in scan, probe \in ProbeOutcomes, lookup \in LookupOutcomes :
       D_BackfillEntry(f, probe, lookup) /\ UNCHANGED << enginevars, barvars, filevars, sortvars >>
  \/ W_Check /\ UNCHANGED << enginevars, barvars, filevars, sortvars >>
  \/ W_Get /\ UNCHANGED << enginevars, barvars, filevars, sortvars >>
  \/ W_Empty /\ UNCHANGED << enginevars, barvars, filevars, sortvars >>
  \/ \E started, logged \in BOOLEAN :
       W_Spawn(started, logged) /\ UNCHANGED << enginevars, barvars, filevars, sortvars >>
  \/ \E o \in JobOutcomes, raised, logged1, logged2 \in BOOLEAN :
       W_Exit(o, raised, logged1, logged2) /\ UNCHANGED << enginevars, barvars, filevars, sortvars >>

SpecScan == InitScan /\ [][NextScan]_vars

\* Both threads keep running while they have a step to take, and a started
\* subprocess exits.
FairSpec ==
  /\ Spec
  /\ WF_vars(Driver /\ UNCHANGED << enginevars, barvars, filevars, sortvars >>)
  /\ WF_vars(Worker /\ UNCHANGED << enginevars, barvars, filevars, sortvars >>)

\* One ProgressBar, from its construction on, outside any run of main().
InitPB ==
  /\ dir = << >>
  /\ EngineIdle
  /\ PipeIdle
  /\ FileIdle
  /\ SortIdle
  /\ bpc = "none"
  /\ bar = NewBar(0)
  /\ fed = << >>

NextPB ==
  \/ \E t \in TotalFrames : PB_New(t) /\ UNCHANGED << dir, enginevars, pipevars, filevars, sortvars >>
  \/ \E line \in Lines : PB_Feed(line) /\ UNCHANGED << dir, enginevars, pipevars, filevars, sortvars >>

SpecPB == InitPB /\ [][NextPB]_vars

\* The ledger file alone, through the three things main() does to it.
InitLedger ==
  /\ dir = << >>
  /\ EngineIdle
  /\ PipeIdle
  /\ BarIdle
  /\ SortIdle
  /\ lpc = "closed"
  /\ content \in StartContents
  /\ written = << >>
  /\ loaded = {}

NextLedger ==
  \/ L_Open /\ UNCHANGED << dir, enginevars, pipevars, barvars, sortvars >>
  \/ L_Load /\ UNCHANGED << dir, enginevars, pipevars, barvars, sortvars >>
  \/ \E id \in LedgerIds :
       L_Append(id) /\ UNCHANGED << dir, enginevars, pipevars, barvars, sortvars >>

SpecLedger == InitLedger /\ [][NextLedger]_vars

\* One call of sort_videos.
InitSort ==
  /\ dir = << >>
  /\ EngineIdle
  /\ PipeIdle
  /\ BarIdle
  /\ FileIdle
  /\ spc = "called"
  /\ sv_videos \in SortInputs
  /\ sv_after_date \in AfterValues
  /\ sv_keyword \in KeywordValues
  /\ sv_result = << >>

NextSort ==
  \/ SV_Call /\ UNCHANGED << dir, enginevars, pipevars, barvars, filevars >>

SpecSort == InitSort /\ [][NextSort]_vars

\* A started TranscodeWorker and a client that puts jobs and calls stop()
\* whenever it likes.
WorkerDirs ==
  { << Entry("b", "webm"), Entry("b", "jpg") >>, << Entry("b", "mp4") >> }

InitWorker ==
  /\ EngineIdle
  /\ BarIdle
  /\ FileIdle
  /\ SortIdle
  /\ dir \in WorkerDirs
  /\ partial = {}
  /\ pc = "client"
  /\ videos = << >>
  /\ index = 0
  /\ downloaded_ids = {}
  /\ scan = {}
  /\ counters = 0
  /\ lastscan = NotSeen
  /\ lastexit = NoExit
  /\ ledger = << >>
  /\ error_log = << >>
  /\ dlpath = NoCall
  /\ successes = 0
  /\ failures = 0
  /\ jobs = << >>
  /\ status = << >>
  /\ queue = << >>
  /\ unfinished = 0
  /\ wpc = "top"
  /\ cur = 0
  /\ stop = FALSE
  /\ stopat = ""
  /\ stuck = {}
  /\ polls = 0
  /\ tlog = << >>

NextWorker ==
  \/ \E f \in ClientSources, mode \in ClientModes :
       WK_Put(f, mode) /\ UNCHANGED << enginevars, barvars, filevars, sortvars >>
  \/ WK_Stop /\ UNCHANGED << enginevars, barvars, filevars, sortvars >>
  \/ W_Check /\ UNCHANGED << enginevars, barvars, filevars, sortvars >>
  \/ W_Get /\ UNCHANGED << enginevars, barvars, filevars, sortvars >>
  \/ W_Empty /\ UNCHANGED << enginevars, barvars, filevars, sortvars >>
  \/ \E started, logged \in BOOLEAN :
       W_Spawn(started, logged) /\ UNCHANGED << enginevars, barvars, filevars, sortvars >>
  \/ \E o \in JobOutcomes, raised, logged1, logged2 \in BOOLEAN :
       W_Exit(o, raised, logged1, logged2) /\ UNCHANGED << enginevars, barvars, filevars, sortvars >>

SpecWorker == InitWorker /\ [][NextWorker]_vars

\* The worker thread keeps running while it has a step to take, and a
\* started subprocess exits.
FairWorker ==
  /\ SpecWorker
  /\ WF_vars(Worker /\ UNCHANGED << enginevars, barvars, filevars, sortvars >>)

(***************************************************************************)
(* Properties of download_video (checked under SpecDL).                    *)
(***************************************************************************)
Runs == SelectSeq(events, LAMBDA e: e.ev = "run")

PrimaryRuns == SelectSeq(Runs, LAMBDA e: ~e.android)

AndroidRuns == SelectSeq(Runs, LAMBDA e: e.android)

AllFailed == \A i \in 1..Len(Runs) : ~Runs[i].ok

ExhaustedCounts ==
  /\ Len(PrimaryRuns) = 5 * (retries + 1)
  /\ Len(AndroidRuns) = retries + 1

\* C1 as stated: whenever download_video has returned and every attempt
\* failed, the tool was run exactly 5*(retries+1) times with the primary
\* strategies and retries+1 times with the Android client, the value
\* returned is None, and nothing was raised.
C1_ExhaustiveAttempts_AnyItem ==
  /\ epc # "raised"
  /\ (epc = "returned" /\ AllFailed) => (ExhaustedCounts /\ result = NoPath)

\* C1 amended: the counts hold for an item that has a locator or an
\* identifier; an item with neither returns None without any tool run.
C1_ExhaustiveAttempts ==
  /\ epc # "raised"
  /\ (epc = "returned" /\ AllFailed) =>
       /\ result = NoPath
       /\ IF HasUrl(video) THEN ExhaustedCounts ELSE Runs = << >>

C1_Witness ==
  /\ epc = "returned" /\ AllFailed /\ HasUrl(video)
  /\ retries >= 1 /\ Len(Runs) = 6 * (retries + 1)

\* C2: a successful attempt is the last tool run of the call: the call has
\* returned, nothing (no run, no sleep) follows it, and the value returned
\* is the file the locator finds for the item.
C2_ReturnsAtFirstSuccess ==
  \A i \in 1..Len(Runs) :
    Runs[i].ok =>
      /\ i = Len(Runs)
      /\ events[Len(events)] = Runs[i]
      /\ epc = "returned"
      /\ result # NoPath
      /\ result = _find_downloaded_file(dir, video.id)

C2_Witness ==
  /\ epc = "returned" /\ Len(Runs) >= 2 /\ Runs[Len(Runs)].ok
  /\ Len(Runs) < 6 * (retries + 1)

\* Tool runs accounted for by the loop counters when no run has succeeded.
RunsCounted ==
  CASE epc = "primary"  -> (strategy_index - 1) * (retries + 1) + attempt
    [] epc = "android"  -> (5 + strategy_index - 1) * (retries + 1) + attempt
    [] epc = "returned" -> 6 * (retries + 1)
    [] OTHER            -> 0

\* C3: the latest attempt is taken as a success exactly when the tool
\* exited with 0 and a file matching the identifier was found; then the call
\* returns that file. Any other attempt (non-zero exit, or zero exit and no
\* file) leaves the result absent and advances the attempt counters by one.
C3_SuccessIffExitZeroAndLocated ==
  Len(Runs) > 0 =>
    LET good == lastrun.code = 0 /\ lastrun.located
    IN /\ Runs[Len(Runs)].ok <=> good
       /\ good => (epc = "returned" /\ result # NoPath)
       /\ ~good => (result = NoPath /\ Len(Runs) = RunsCounted)

C3_Witness ==
  /\ lastrun.code = 0 /\ ~lastrun.located
  /\ epc = "primary" /\ attempt = 1 /\ Len(Runs) = 1

\* The (selector, client identity) of the k-th tool run of a call.
Scheduled(k) ==
  LET idx == ((k - 1) \div (retries + 1)) + 1
  IN IF idx <= Len(FormatStrategies)
       THEN [fmt |-> FormatStrategies[idx], android |-> FALSE]
       ELSE [fmt |-> AndroidStrategies[idx - Len(FormatStrategies)],
             android |-> TRUE]

\* C4: the tool runs of a call follow the strategy list in order, each
\* strategy retries+1 times, every run before the latest one a failure, and
\* the Android client identity carried by exactly the runs after the five
\* primary strategies are exhausted.
C4_StrategiesInOrder ==
  /\ Len(Runs) <= 6 * (retries + 1)
  /\ \A k \in 1..Len(Runs) :
       /\ Runs[k].fmt = Scheduled(k).fmt
       /\ Runs[k].android = Scheduled(k).android
       /\ Runs[k].android <=> k > 5 * (retries + 1)
       /\ k < Len(Runs) => ~Runs[k].ok

C4_Witness ==
  /\ epc = "returned" /\ result # NoPath
  /\ Len(Runs) = 5 * (retries + 1) + 1 /\ Runs[Len(Runs)].android

(***************************************************************************)
(* Properties of the driver, the queue and the worker (checked under Spec, *)
(* the liveness property under FairSpec).                                  *)
(***************************************************************************)
JobIds == 1..Len(jobs)

Terminal == {"OK", "FAIL", "ERROR"}

InQueue(q, j) == \E i \in 1..Len(q) : q[i] = j

\* C5: a step that calls download_video never does so for an identifier
\* that downloaded_videos.log already holds.
C5_NoReacquisition ==
  [][ (pc = "loop" /\ pc' = "download") =>
        VideoId(videos[index]) \notin load_downloaded_ids(ledger) ]_vars

\* C6: once join() has returned, every job put on the queue has an outcome
\* (OK, FAIL or ERROR), the queue is empty and the worker holds no job.
C6_DrainMeansAllFinished ==
  pc \in {"joined", "done"} =>
    /\ \A j \in JobIds : status[j] \in Terminal
    /\ queue = << >>
    /\ cur = 0
    /\ wpc \notin {"job", "proc"}

C6_Witness ==
  /\ pc = "joined"
  /\ Len(jobs) >= 2
  /\ \E j \in JobIds : status[j] = "OK"
  /\ \E j \in JobIds : status[j] \in {"FAIL", "ERROR"}

\* C7: a call of join() always returns.
C7_DrainReturns == (pc = "join") ~> (pc = "joined")

\* C8: every job put on the queue is held in exactly one place: waiting in
\* the queue (once), held by the worker, or finished with one line in
\* transcode.log at most; unfinished_tasks counts the jobs not yet finished,
\* and once join() has returned every job is finished.
C8_NoLostNoDuplicatedJob ==
  /\ \A j \in JobIds :
       /\ status[j] = "queued" <=> InQueue(queue, j)
       /\ status[j] = "running" <=> cur = j
       /\ Cardinality({ i \in 1..Len(queue) : queue[i] = j }) <= 1
       /\ Cardinality({ i \in 1..Len(tlog) : tlog[i].job = j }) <= 1
       /\ (\E i \in 1..Len(tlog) : tlog[i].job = j) => status[j] \in Terminal
  /\ \A i \in 1..Len(queue) : queue[i] \in JobIds
  /\ unfinished = Cardinality({ j \in JobIds : status[j] \notin Terminal })
  /\ pc \in {"joined", "done"} => \A j \in JobIds : status[j] \in Terminal

C8_Witness ==
  /\ pc = "download"
  /\ index = 2
  /\ wpc = "proc"
  /\ Len(queue) >= 1
  /\ Len(jobs) >= 2

\* C9: at most one job is running, and it is the one the worker holds
\* between its get() and its task_done().
C9_AtMostOneRunning ==
  /\ Cardinality({ j \in JobIds : status[j] = "running" }) <= 1
  /\ (\E j \in JobIds : status[j] = "running") <=> wpc \in {"job", "proc"}

C9_Witness ==
  /\ wpc = "proc"
  /\ Len(queue) >= 2
  /\ \E j \in JobIds : status[j] = "running"

\* C10: a job only moves queued -> running -> {OK, FAIL, ERROR}; a running
\* job stays running until its outcome is set, whatever the driver does
\* (stop included); a finished job keeps its outcome and never is on the
\* queue again; no job is dropped or altered.
C10_JobLifecycle ==
  [][ /\ Len(jobs') >= Len(jobs)
      /\ \A j \in JobIds :
           /\ jobs'[j] = jobs[j]
           /\ status[j] = "queued" => status'[j] \in {"queued", "running"}
           /\ status[j] = "running" => status'[j] \in {"running"} \cup Terminal
           /\ status[j] \in Terminal =>
                (status'[j] = status[j] /\ ~InQueue(queue', j))
           /\ (status[j] = "running" /\ status'[j] \in Terminal) =>
                wpc \in {"job", "proc"} ]_vars

C10_Witness ==
  /\ \E j \in JobIds : status[j] \in {"FAIL", "ERROR"}
  /\ \E j \in JobIds : status[j] = "running"
  /\ wpc = "proc"

(***************************************************************************)
(* Properties of the worker's handling of one job and of the               *)
(* reconciliation scan (checked under SpecScan).                            *)
(***************************************************************************)
\* The OK and FAIL lines transcode.log holds for job j.
OutcomeLines(j) ==
  { i \in 1..Len(tlog) : tlog[i].job = j /\ tlog[i].kind \in {"OK", "FAIL"} }

Complete(d, ps, f) == Exists(d, f) /\ f \notin ps

\* C13: while the worker holds a remux job that replaces its source in
\* place, no step takes the source path from holding a complete file to
\* holding none or a truncated one: an interruption after any step finds a
\* complete file there.
C13_FinalPathStaysComplete ==
  [][ (cur # 0 /\ InPlace(jobs[cur])
        /\ Complete(dir, partial, jobs[cur].source_path))
      => Complete(dir', partial', jobs[cur].source_path) ]_vars

\* C14: a step in which processing a job raises leaves the job with one
\* ERROR line in transcode.log, marks the task done, and leaves the worker
\* in its loop, ready for the next job.
C14_ExceptionCaughtAtJobBoundary ==
  [][ \A j \in JobIds :
        (status[j] = "running" /\ status'[j] = "ERROR") =>
          /\ Cardinality({ i \in 1..Len(tlog') :
                             tlog'[i] = Line("ERROR", j) }) = 1
          /\ unfinished' = unfinished - 1
          /\ wpc' = "top" ]_vars

\* The post-processing subprocess of the running job is writing to f.
BeingProduced(f) == wpc = "proc" /\ Dst(jobs[cur]) = f

\* C15: a job is never put on the queue while a post-processing
\* subprocess is writing to its source path, and the acquisition tool
\* never writes to the source path of a job that is running.
C15_SourceNotBeingWritten ==
  [][ /\ Len(jobs') > Len(jobs) =>
           ~BeingProduced(jobs'[Len(jobs')].source_path)
      /\ (pc = "download" /\ dir' # dir) =>
           \A j \in JobIds :
             status[j] = "running" => jobs[j].source_path # dir'[Len(dir')]
    ]_vars

\* The entry a step of the scan's second loop visits.
Visited == CHOOSE f \in scan \ scan' : TRUE

VisitStep == pc = "backfill" /\ scan' # scan

\* The jobs whose source is f.
JobsOn(js, f) == { j \in 1..Len(js) : js[j].source_path = f }

\* C16: the scan's visit of a regular .webm file puts exactly one job on
\* the queue, a transcode job with that file as source and the scanned
\* directory as output directory, without running the probe; no job had
\* that source before, and the scan queues jobs for no entry but the one
\* it visits.
C16_WebmQueuedOnce ==
  [][ VisitStep =>
        /\ Len(jobs') > Len(jobs) =>
              /\ Len(jobs') = Len(jobs) + 1
              /\ jobs'[Len(jobs')].source_path = Visited
        /\ (Visited.ext = "webm" /\ Exists(dir, Visited) /\ IsFile(Visited)) =>
              /\ JobsOn(jobs, Visited) = {}
              /\ JobsOn(jobs', Visited) = {Len(jobs')}
              /\ jobs'[Len(jobs')].mode = "transcode"
              /\ jobs'[Len(jobs')].output_dir = OutputDir
              /\ queue' = Append(queue, Len(jobs'))
              /\ counters' = counters + 1
              /\ lastscan'.probe = "not_run"
    ]_vars

C16_Witness ==
  /\ pc = "backfill" /\ scan = {}
  /\ lastscan.f.ext = "webm" /\ lastscan.regular /\ ~lastscan.thumb
  /\ Cardinality(JobsOn(jobs, lastscan.f)) = 1
  /\ \A j \in JobsOn(jobs, lastscan.f) : jobs[j].mode = "transcode"

\* The visited entry is a regular .mp4 file.
VisitedMp4 ==
  /\ VisitStep
  /\ EndsWithMp4(Visited.ext) /\ Exists(dir, Visited) /\ IsFile(Visited)

\* The step puts exactly one remux job on the queue, for the visited entry,
\* which had none.
QueuesOneRemux ==
  /\ JobsOn(jobs, Visited) = {}
  /\ Len(jobs') = Len(jobs) + 1
  /\ JobsOn(jobs', Visited) = {Len(jobs')}
  /\ jobs'[Len(jobs')].mode = "remux"
  /\ queue' = Append(queue, Len(jobs'))
  /\ counters' = counters + 1

QueuesNothing == jobs' = jobs /\ queue' = queue /\ counters' = counters

\* C17: the scan's visit of a regular .mp4 with its .jpg next to it queues
\* exactly one remux job for it, unless the probe exits 0 with output that
\* holds both a title and an artist field, and then it queues nothing; the
\* visit of an .mp4 without its .jpg queues nothing and runs no probe.
C17_Mp4QueuedUnlessTagged ==
  [][ VisitedMp4 =>
        IF Exists(dir, Thumb(Visited))
          THEN IF lastscan'.probe = "both" THEN QueuesNothing
               ELSE QueuesOneRemux
          ELSE QueuesNothing /\ lastscan'.probe = "not_run"
    ]_vars

C17_Witness ==
  /\ pc = "backfill"
  /\ EndsWithMp4(lastscan.f.ext) /\ lastscan.regular /\ lastscan.thumb
  /\ lastscan.probe = "both"
  /\ JobsOn(jobs, lastscan.f) = {}
  /\ \E g \in scan : g.ext = "tmp.mp4"

\* C18: when the probe of a regular .mp4 with its .jpg raises (a timeout
\* included), exits non-zero or prints nothing, the visit queues exactly one
\* remux job for the file and the scan goes on with the entries left.
C18_ProbeFailureMeansProcess ==
  [][ (VisitedMp4 /\ Exists(dir, Thumb(Visited))
        /\ lastscan'.probe \in {"raises", "nonzero", "empty"})
      => /\ QueuesOneRemux
         /\ pc' = "backfill"
         /\ scan' = scan \ {Visited}
    ]_vars

C18_Witness ==
  /\ pc = "backfill" /\ scan # {}
  /\ EndsWithMp4(lastscan.f.ext) /\ lastscan.regular /\ lastscan.thumb
  /\ lastscan.probe = "raises"
  /\ \E j \in JobsOn(jobs, lastscan.f) : jobs[j].mode = "remux"

\* The scan wants a job for the entry it visits: a regular .webm, or a
\* regular .mp4 with its .jpg whose probe did not report both fields.
VisitedWanted ==
  /\ VisitStep
  /\ Exists(dir, Visited) /\ IsFile(Visited)
  /\ \/ Visited.ext = "webm"
     \/ /\ EndsWithMp4(Visited.ext)
        /\ Exists(dir, Thumb(Visited))
        /\ lastscan'.probe # "both"

NoMetadata(job) ==
  /\ job.title = None
  /\ job.uploader = None
  /\ job.upload_date = None
  /\ job.webpage_url = None

\* C19: when the scan wants a job for an entry whose name holds no
\* identifier token (no lookup is made) or whose lookup fails, the visit
\* still puts the job on the queue, and its title, uploader, upload date
\* and source locator are all absent.
C19_LookupFailureStillQueues ==
  [][ (VisitedWanted /\ lastscan'.lookup # "found") =>
        /\ lastscan'.lookup = "not_called"
             <=> _extract_id_from_filename(Visited) = ""
        /\ Len(jobs') = Len(jobs) + 1
        /\ jobs'[Len(jobs')].source_path = Visited
        /\ NoMetadata(jobs'[Len(jobs')])
        /\ queue' = Append(queue, Len(jobs'))
    ]_vars

C19_Witness ==
  /\ pc = "backfill"
  /\ lastscan.lookup = "fails"
  /\ _extract_id_from_filename(lastscan.f) # ""
  /\ \E j \in JobsOn(jobs, lastscan.f) :
       NoMetadata(jobs[j]) /\ InQueue(queue, j)

(***************************************************************************)
(* Properties of the ProgressBar (checked under SpecPB).                   *)
(***************************************************************************)
\* The decimal numeral a token's text starts with, spaces skipped.
Numeral(t) ==
  LET u == Rest(t, SpanLen(t, {" "}))
  IN SubSeq(u, 1, SpanLen(u, Digits \cup {"."}))

\* The text holds a value: its numeral has a digit and at most one point.
HoldsValue(t) == Numeral(t) # << >> /\ ~FloatRaises(Numeral(t))

\* The fed lines that hold a value for the field k.
LinesWith(k) == { i \in 1..Len(fed) : HoldsValue(fed[i][k]) }

\* The value, in thousandths, of field k in the last fed line that holds
\* one; the initial value 0 when no fed line does.
LastFedValue(k) ==
  IF LinesWith(k) = {} THEN 0
  ELSE LET i == CHOOSE n \in LinesWith(k) : \A m \in LinesWith(k) : m <= n
       IN FloatOf(Numeral(fed[i][k]))

\* C20: after any sequence of fed lines the bar's current frame, fps and
\* speed each equal the value of that field in the last fed line that
\* holds one, and the initial value when no fed line does.
C20_FieldsEqualLastFed ==
  bpc \in {"live", "raised"} =>
    /\ 1000 * bar.current_frame = LastFedValue("frame")
    /\ 1000 * bar.fps = LastFedValue("fps")
    /\ bar.speed = LastFedValue("speed")

\* What the bar does hold: frame and speed as C20 says, and of fps the
\* whole part only.
FieldsEqualLastFed_FpsWhole ==
  bpc \in {"live", "raised"} =>
    /\ 1000 * bar.current_frame = LastFedValue("frame")
    /\ bar.fps = LastFedValue("fps") \div 1000
    /\ bar.speed = LastFedValue("speed")

\* C21: whenever the bar's total frame count is positive, the ETA it holds
\* is not negative, whatever lines were fed.
C21_EtaNonNegative ==
  (bpc \in {"live", "raised"} /\ bar.total_frames > 0) => bar.eta.num >= 0

\* The rendering shows no ETA figure.
RendersUnknown(b) == render(b).eta_str # "h:mm:ss"

\* C22: after a fed line, a bar with positive total frame count and
\* non-zero fps holds the ETA (total_frames - current_frame) / fps; any
\* other bar renders its ETA as unknown.
C22_EtaFromTotalAndFps ==
  (bpc = "live" /\ fed # << >>) =>
    IF bar.total_frames > 0 /\ bar.fps # 0
      THEN bar.eta.num * bar.fps
             = (bar.total_frames - bar.current_frame) * bar.eta.den
      ELSE RendersUnknown(bar)

\* What the bar does hold: the quotient as of the last fed line that
\* carried a time= stamp while fps was positive, and 0 before any such
\* line when the total frame count is positive.
EtaAsOfLastStampedLine ==
  (bpc = "live" /\ fed # << >>) =>
    LET line == fed[Len(fed)]
    IN IF TimeMatches(line.time) /\ bar.fps > 0 /\ bar.total_frames > 0
         THEN /\ bar.eta.num = bar.total_frames - bar.current_frame
              /\ bar.eta.den = bar.fps
         ELSE bar.total_frames = 0 => bar.eta = Ratio(0, 1)

(***************************************************************************)
(* Properties of the driver loop and the ledger (checked under Spec).      *)
(***************************************************************************)
\* The step in which download_video returns.
DownloadReturns == pc = "download" /\ pc' # "download"

\* C23: when download_video returns None the loop body appends one line
\* for the item to errors.log, adds one to the failure count, puts no job
\* on the queue, leaves the ledger and the success count alone, and the
\* loop goes on with the next item.
C23_FailureRecordedBatchGoesOn ==
  [][ (DownloadReturns /\ dlpath' = NoPath) =>
        /\ error_log' = Append(error_log, FailedLine(videos[index]))
        /\ failures' = failures + 1
        /\ jobs' = jobs /\ queue' = queue /\ unfinished' = unfinished
        /\ ledger' = ledger /\ successes' = successes
        /\ videos' = videos /\ index' = index + 1
    ]_vars

C23_Witness ==
  /\ failures = 1 /\ Len(error_log) = 1
  /\ index = 3
  /\ dlpath \notin {NoPath, NoCall}
  /\ \E j \in 1..Len(jobs) : jobs[j].source_path = dlpath

\* The job main() is to put for a path: remux for a name ending in .mp4,
\* transcode for any other.
JobFor(path, v) ==
  TranscodeJob(path,
               IF EndsWithMp4(path.ext) THEN "remux" ELSE "transcode",
               ItemMeta(v))

\* C30: the step in which download_video returns a path puts one job for
\* that path on the queue, of the mode the name asks for, and leaves the
\* ledger alone; the driver puts no second job for the item; and a step
\* that appends to the ledger appends the identifier of the item under
\* way, whose download returned a path in this run and whose job is the
\* one put last.
C30_OneJobThenLedger ==
  [][ /\ (DownloadReturns /\ dlpath' # NoPath) =>
            /\ jobs' = Append(jobs, JobFor(dlpath', videos[index]))
            /\ queue' = Append(queue, Len(jobs) + 1)
            /\ unfinished' = unfinished + 1
            /\ ledger' = ledger
      /\ pc = "record" => jobs' = jobs
      /\ ledger' # ledger =>
            /\ ledger' = Append(ledger, videos[index].id)
            /\ dlpath \notin {NoPath, NoCall}
            /\ dlpath' = dlpath
            /\ jobs' = jobs
            /\ jobs[Len(jobs)] = JobFor(dlpath, videos[index])
            /\ index' = index + 1
    ]_vars

C30_Witness ==
  /\ pc = "loop"
  /\ index = 3
  /\ successes = 2
  /\ Len(jobs) >= 2
  /\ dlpath = Entry("a", "mp4")
  /\ jobs[Len(jobs)] = JobFor(dlpath, videos[2])
  /\ jobs[Len(jobs) - 1].mode = "transcode"
  /\ ledger # << >> /\ ledger[Len(ledger)] = "a"

(***************************************************************************)
(* Properties of the ledger file (checked under SpecLedger).               *)
(***************************************************************************)
IsPrefix(c, d) == Len(c) <= Len(d) /\ SubSeq(d, 1, Len(c)) = c

\* C24: no step removes or rewrites what the ledger file holds, the set
\* load_downloaded_ids would read back never loses a member, every
\* identifier append_line was called with is in that set, and a load
\* returns a set that holds them all.
C24_LedgerAppendOnly ==
  [][ /\ IsPrefix(content, content')
      /\ FileLoad(content) \subseteq FileLoad(content')
      /\ \A i \in 1..Len(written') : written'[i] \in FileLoad(content')
      /\ loaded' # loaded =>
            \A i \in 1..Len(written) : written[i] \in loaded'
    ]_vars

C24_Witness ==
  /\ Len(written) = 2 /\ written[1] # written[2]
  /\ content # << >> /\ ~IsPrefix(written[1], content)
  /\ loaded = FileLoad(content)
  /\ Cardinality(loaded) = 3

(***************************************************************************)
(* Properties of TranscodeWorker under any client (checked under           *)
(* SpecWorker and FairWorker).                                             *)
(***************************************************************************)
NoneRunning == \A j \in 1..Len(status) : status[j] # "running"

LoopOver == wpc \in {"stopped", "dead"}

\* C25: stop() changes nothing of a job under way; run() leaves its loop
\* only at the loop test, with stop set, holding no job, no job running
\* and every job it took marked done; once stop is set at most one get()
\* timeout expires; and once stop is set the loop is left in the end.
C25_StopBetweenJobs ==
  /\ [][ /\ stop' # stop =>
              /\ stop'
              /\ wpc' = wpc /\ cur' = cur /\ status' = status
              /\ queue' = queue /\ unfinished' = unfinished
              /\ dir' = dir /\ tlog' = tlog
         /\ (wpc' = "stopped" /\ wpc # "stopped") =>
              /\ wpc = "top" /\ stop
              /\ cur = 0 /\ NoneRunning
              /\ unfinished = Len(queue)
         /\ (stop /\ wpc = "proc" /\ wpc' # wpc) =>
              status'[cur] \in {"OK", "FAIL", "ERROR"}
       ]_vars
  /\ [](polls <= 1)
  /\ [](stop => <>LoopOver)

C25_Witness ==
  /\ stopat = "proc"
  /\ wpc = "stopped"
  /\ polls = 0
  /\ Len(jobs) = 2
  /\ status[1] = "OK"
  /\ status[2] = "queued"

Finished(j) == status[j] \in {"OK", "FAIL", "ERROR"}

\* C26: whenever a job has left the queue, every job put before it is
\* finished and has its outcome line in transcode.log; the lines of
\* transcode.log are in put order; and task_done() has been called for
\* exactly the finished jobs.
C26_EnqueueOrder ==
  /\ \A a, b \in 1..Len(jobs) :
        (a < b /\ status[b] # "queued") =>
           /\ Finished(a)
           /\ \E i \in 1..Len(tlog) : tlog[i] = Line(status[a], a)
  /\ \A i, k \in 1..Len(tlog) : i < k => tlog[i].job < tlog[k].job
  /\ unfinished = Cardinality({ j \in 1..Len(jobs) : ~Finished(j) })

C26_Witness ==
  /\ Len(jobs) = 2
  /\ status[1] = "FAIL"
  /\ status[2] = "running"
  /\ wpc = "proc"
  /\ Len(tlog) = 1
  /\ unfinished = 1

(***************************************************************************)
(* Properties of sort_videos (checked under SpecSort).                     *)
(***************************************************************************)
\* The title a video has, as text: none when the key is missing or holds
\* None.
TitleText(v) ==
  IF v.title \in {NoKey, NoValue} THEN << >> ELSE v.title

PassesDate(v) ==
  LET ud        == _parse_date(Get(v.upload_date, NoValue))
      threshold == _parse_date(sv_after_date)
  IN ~(threshold # NoDate /\ ud # NoDate /\ ud <= threshold)

PassesKeyword(v) ==
  KeywordGiven(sv_keyword) =>
     Contains(Lower(TitleText(v)), Lower(sv_keyword))

Passing ==
  SelectSeq(sv_videos, LAMBDA v : PassesDate(v) /\ PassesKeyword(v))

Count(list, v) == Len(SelectSeq(list, LAMBDA w : w = v))

SameVideos(l1, l2) ==
  \A i \in 1..Len(l1) \cup 1..Len(l2) :
     LET v == IF i <= Len(l1) THEN l1[i] ELSE l2[i]
     IN Count(l1, v) = Count(l2, v)

\* C27: a call of sort_videos returns, and what it returns are the input
\* videos that pass the date filter and the keyword filter, each as often
\* as it was handed in.
C27_ReturnsThosePassingBothFilters ==
  spc # "called" => (spc = "returned" /\ SameVideos(sv_result, Passing))

\* Every call that returns, returns those videos, newest first.
ReturnedOnesPassBothFilters ==
  spc = "returned" =>
     /\ SameVideos(sv_result, Passing)
     /\ \A i, k \in 1..Len(sv_result) :
          i < k => SortKey(sv_result[i]) >= SortKey(sv_result[k])

(***************************************************************************)
(* Properties of the pauses of download_video (checked under SpecDL).      *)
(***************************************************************************)
RunAt(i) == events[i].ev = "run"

\* p and q are the positions of two tool runs with no run between them.
NextRuns(p, q) ==
  /\ p < q /\ RunAt(p) /\ RunAt(q)
  /\ \A i \in (p + 1)..(q - 1) : ~RunAt(i)

Between(p, q) == SubSeq(events, p + 1, q - 1)

SameStrategy(p, q) ==
  events[p].fmt = events[q].fmt /\ events[p].android = events[q].android

Matching(d, id) ==
  { i \in 1..Len(d) : d[i].ext # "dir" /\ d[i].vid = id }

\* C28: what _find_downloaded_file made of the directory the latest tool
\* run left is None when the identifier is None or empty or no regular
\* file matches, and else the matching regular file modified last.
C28_LocateNewestRegularMatch ==
  lastrun # NoRun =>
    LET m == Matching(dir, video.id)
    IN IF video.id \in {None, ""} \/ m = {}
         THEN lastrun.found = NoPath
         ELSE \E i \in m : /\ dir[i] = lastrun.found
                           /\ \A k \in m : k <= i

C28_Witness ==
  /\ lastrun.found = Entry(RealId, "part")
  /\ Exists(dir, Entry(RealId, "mp4"))
  /\ Exists(dir, Entry(RealId, "dir"))

(***************************************************************************)
(* Properties of backfill_existing_media's first loop (checked under       *)
(* SpecScan).                                                              *)
(***************************************************************************)
CleanStep == pc = "backfill_clean" /\ pc' = "backfill"

NoPartialQueued ==
  \A j \in 1..Len(jobs) : ~IsPartial(jobs[j].source_path)

\* C31 as stated: once the first loop is over no entry ending in .part or
\* .ytdl is left, nothing was put on the queue before, no such file is
\* ever put, and counters["queued"] is the number of jobs put.
C31_PartialsAllDeleted ==
  /\ pc = "backfill_clean" => jobs = << >>
  /\ pc = "backfill" => \A i \in 1..Len(dir) : ~IsPartial(dir[i])
  /\ NoPartialQueued
  /\ counters = Len(jobs)

\* C31, amended: the first loop comes before any put and leaves of the
\* entries ending in .part or .ytdl only those on which os.remove raised,
\* every other entry staying as it was; no such file is ever put on the
\* queue; and counters["queued"] is the number of jobs put.
C31_PartialsDeletedUnlessRemoveRaises ==
  /\ [][ CleanStep =>
           /\ jobs = << >> /\ jobs' = << >>
           /\ dir' = SelectSeq(dir, LAMBDA f: ~IsPartial(f) \/ f \in stuck')
           /\ \A f \in stuck' : IsPartial(f) /\ Exists(dir, f)
       ]_vars
  /\ [](pc = "backfill" =>
          \A i \in 1..Len(dir) : IsPartial(dir[i]) => dir[i] \in stuck)
  /\ [](NoPartialQueued /\ counters = Len(jobs))

C31_Witness ==
  /\ pc = "backfill"
  /\ scan = {}
  /\ stuck = {Entry("a", "part")}
  /\ Exists(dir, Entry("a", "part"))
  /\ counters = 1
  /\ Len(jobs) = 1

(***************************************************************************)
(* Properties of the jobs' modes (checked under Spec).                     *)
(***************************************************************************)
\* The job run() judged last took the branch that deletes the source.
SourceDeleted ==
  /\ lastexit # NoExit
  /\ lastexit.success
  /\ ~(jobs[lastexit.job].mode = "remux"
         /\ EndsWithMp4(jobs[lastexit.job].source_path.ext))

\* C32: every job put on the queue is a remux job exactly when the name
\* of its source ends in .mp4, a job of another mode has a destination
\* other than its source, and run() deletes the source only of a job
\* whose destination is another path.
C32_RemuxIffMp4 ==
  /\ \A j \in 1..Len(jobs) :
       /\ jobs[j].mode = "remux" <=> EndsWithMp4(jobs[j].source_path.ext)
       /\ jobs[j].mode # "remux" => Dst(jobs[j]) # jobs[j].source_path
  /\ SourceDeleted =>
       Dst(jobs[lastexit.job]) # jobs[lastexit.job].source_path

C32_Witness ==
  /\ SourceDeleted
  /\ jobs[lastexit.job].mode = "transcode"
  /\ ~Exists(dir, jobs[lastexit.job].source_path)
  /\ Exists(dir, Dst(jobs[lastexit.job]))
  /\ \E j \in 1..Len(jobs) : jobs[j].mode = "remux" /\ status[j] = "OK"

(***************************************************************************)
(* Properties of the jobs' files (checked under SpecScan).                 *)
(***************************************************************************)
Pending(j) == status[j] \in {"queued", "running"}

\* C33: no file is the source of a queued or running job while it is the
\* destination of another queued or running job.
C33_NoSourceIsAnothersDestination ==
  \A i, j \in 1..Len(jobs) :
     (i # j /\ Pending(i) /\ Pending(j)) =>
        jobs[i].source_path # Dst(jobs[j])

(***************************************************************************)
(* Properties of the worker thread's end (checked under SpecWorker).       *)
(***************************************************************************)
\* C34: run() is over only if stop() was called, and while it was not
\* called the worker thread is in its loop whatever became of the jobs.
C34_LoopEndsOnlyOnStop ==
  /\ LoopOver => stop
  /\ ~stop => wpc \in {"top", "get", "job", "proc"}

(***************************************************************************)
(* What a failed job leaves behind (checked under SpecScan).               *)
(***************************************************************************)
\* The step in which run() reads the exit of the running job's subprocess
\* and finds a non-zero code or no file at dst.
FailedExit ==
  /\ wpc = "proc" /\ wpc' # "proc"
  /\ lastexit' # lastexit
  /\ lastexit'.code # 0 \/ ~lastexit'.existed

\* C35: when a job fails (non-zero exit or no destination file) the worker
\* neither deletes nor replaces the job's source or the thumbnail next to
\* it: both are other files than dst, each is in the directory after the
\* step iff it was before, with the content it had, and the files other
\* than dst are the ones there were, in their order.
C35_FailureKeepsSourceAndThumb ==
  [][ FailedExit =>
        LET job == jobs[cur]
        IN /\ \A f \in { job.source_path, Thumb(job.source_path) } :
                /\ f # Dst(job)
                /\ Exists(dir', f) <=> Exists(dir, f)
                /\ f \in partial' <=> f \in partial
           /\ Without(dir', Dst(job)) = Without(dir, Dst(job)) ]_vars

\* A job has failed after leaving a truncated output, and its source and
\* thumbnail are still in the directory.
C35_Witness ==
  /\ lastexit # NoExit
  /\ lastexit.code # 0 /\ lastexit.existed /\ ~lastexit.success
  /\ status[lastexit.job] = "FAIL"
  /\ Exists(dir, jobs[lastexit.job].source_path)
  /\ Exists(dir, Thumb(jobs[lastexit.job].source_path))
  /\ Exists(dir, Dst(jobs[lastexit.job]))

(***************************************************************************)
(* The order of join() and stop() in main() (checked under Spec).          *)
(***************************************************************************)
\* join() has been called.
DrainCalled == pc \in {"join", "joined", "done"}

\* C36: stop is set only by a step taken after join() has returned; from
\* the call of join() on no job is created and the queue never grows; so
\* whenever stop is set no job waits in the queue, none is running, every
\* job has an outcome and the count of unfinished tasks is zero.
C36_StopOnlyAfterDrain ==
  /\ [][ stop' # stop => pc = "joined" /\ stop' ]_vars
  /\ [][ DrainCalled => /\ DrainCalled'
                        /\ jobs' = jobs
                        /\ Len(queue') <= Len(queue) ]_vars
  /\ [](stop => /\ pc = "done"
                /\ queue = << >>
                /\ unfinished = 0
                /\ cur = 0
                /\ \A j \in JobIds : status[j] \in Terminal)

\* main() has stopped the worker after two jobs, one put by the scan and
\* one by the loop, were processed.
C36_Witness ==
  /\ stop /\ pc = "done"
  /\ Len(jobs) = 2
  /\ counters = 1
  /\ \A j \in JobIds : status[j] \in Terminal
  /\ \E j \in JobIds : status[j] = "OK"

====
